---- MODULE Spec2Model ----
(***************************************************************************)
(* Reconciliation of RGW users, buckets and bucket policies.               *)
(*                                                                         *)
(* The user resource is modelled with its declared configuration, the      *)
(* plan derived from it (schema kinds and plan modifiers), the recorded    *)
(* state, the private flags, and the remote user with its key list.        *)
(* Bucket and bucket policy are modelled with their own variables and      *)
(* their own specification, SpecBucket.                                    *)
(***************************************************************************)
EXTENDS Integers, Sequences, FiniteSets, TLC

VARIABLES
    config,     \* declared user configuration (attribute values, null if unset)
    state,      \* recorded user state: [present, tainted, data]
    private,    \* private flags: [access_key, secret_key], each "nil", "0" or "1"
    remote,     \* remote user: [exists, user]
    lastOp,     \* the user operation that ran last
    diags,      \* error diagnostics of the last user operation, in order
    calls,      \* remote calls issued by the last user operation, in order
    removed,    \* the last user Read called State.RemoveResource
    lastAnswer, \* the remote's answer to the first call of the last user operation
    planned,    \* access and secret key of the plan the last Create / Update got
    panicked,   \* the last user operation crashed the provider
    keyAnswer,  \* the outcome of CreateKey in the last Update, "none" without one
    failed,     \* the access keys whose RemoveKey call failed in the last Update
    bucket,     \* recorded bucket state: [present, data]
    policy,     \* recorded bucket policy state: [present, data]
    s3,         \* remote object store: [buckets, policies]
    bLastOp,    \* last bucket / bucket policy operation: [res, op, answer, name]
    bDiags,     \* error diagnostics of the last bucket / policy operation
    bRemoved,   \* the last bucket / policy Read called State.RemoveResource
    bCalls,     \* remote calls issued by the last bucket / policy operation
    resolution, \* default resolution of op_mask, max_buckets and suspended, each
                \* [config, plan, out, done]: the declared and the planned value
                \* the modifier gets, and the planned value it leaves
    marking     \* marking of access_key and secret_key at plan time, each
                \* [flag, plan, out, done]: the private flag and the planned
                \* value the modifier gets, and the planned value it leaves

uvars == <<config, state, private, remote, lastOp, diags, calls, removed, lastAnswer,
          planned, panicked, keyAnswer, failed>>
bvars == <<bucket, policy, s3, bLastOp, bDiags, bRemoved, bCalls>>
vars == <<config, state, private, remote, lastOp, diags, calls, removed,
          lastAnswer, planned, panicked, keyAnswer, failed, bucket, policy, s3,
          bLastOp, bDiags, bRemoved, bCalls, resolution, marking>>

----------------------------------------------------------------------------
(* Bounds and value domains *)

MaxKeys == 2        \* most keys the remote user holds

\* the access keys there are, in the order the remote lists a user's keys
AccessKeyOrder == <<"AK1", "AK2">>
AccessKeys == {AccessKeyOrder[i] : i \in DOMAIN AccessKeyOrder}
SecretKeys == {"SK1", "SK2"}

----------------------------------------------------------------------------
(* Attribute values of the plugin framework: a state (null, unknown, known) *)
(* and a value, which is the zero value unless known.                       *)

StringNull == [k |-> "null", v |-> ""]
StringUnknown == [k |-> "unknown", v |-> ""]
StringValue(s) == [k |-> "known", v |-> s]
BoolNull == [k |-> "null", v |-> FALSE]
BoolUnknown == [k |-> "unknown", v |-> FALSE]
BoolValue(b) == [k |-> "known", v |-> b]
Int64Null == [k |-> "null", v |-> 0]
Int64Unknown == [k |-> "unknown", v |-> 0]
Int64Value(n) == [k |-> "known", v |-> n]

IsNull(x) == x.k = "null"
IsUnknown(x) == x.k = "unknown"
ValueString(x) == x.v
ValueBool(x) == x.v
ValueInt64(x) == x.v

\* Diagnostics.HasError
HasError(d) == Len(d) > 0

\* UserResourceModel with every attribute null
\* Id, Username and Tenant are strings held as sequences of characters, so that
\* the id can be built and split character by character.
TextNull == [k |-> "null", v |-> <<>>]
TextUnknown == [k |-> "unknown", v |-> <<>>]
TextValue(s) == [k |-> "known", v |-> s]

NullModel ==
    [Id |-> TextNull, Username |-> TextNull, DisplayName |-> StringNull,
     Email |-> StringNull, GenerateS3Credentials |-> BoolNull,
     ExclusiveS3Credentials |-> BoolNull, Caps |-> <<>>, OpMask |-> StringNull,
     MaxBuckets |-> Int64Null, Suspended |-> BoolNull, Tenant |-> TextNull,
     AccessKey |-> StringNull, SecretKey |-> StringNull,
     PurgeDataOnDelete |-> BoolNull]

NoState == [present |-> FALSE, tainted |-> FALSE, data |-> NullModel]
NoPrivate == [access_key |-> "nil", secret_key |-> "nil"]

\* admin.User as the remote holds and returns it
NoRemote ==
    [exists |-> FALSE,
     user |-> [ID |-> <<>>, DisplayName |-> "", Email |-> "", OpMask |-> "",
               Caps |-> <<>>, MaxBuckets |-> <<>>, Suspended |-> <<>>,
               Keys |-> <<>>]]

Call(op, uid, ak) == [op |-> op, uid |-> uid, ak |-> ak]

----------------------------------------------------------------------------
(* Key lists of the remote: access keys are unique within one user *)

RECURSIVE KeyIds(_)
KeyIds(keys) ==
    IF keys = <<>> THEN {} ELSE {Head(keys).AccessKey} \cup KeyIds(Tail(keys))

RECURSIVE WithoutKey(_, _)
WithoutKey(keys, ak) ==
    IF keys = <<>> THEN <<>>
    ELSE IF Head(keys).AccessKey = ak THEN WithoutKey(Tail(keys), ak)
    ELSE <<Head(keys)>> \o WithoutKey(Tail(keys), ak)

RECURSIVE ReplaceSecret(_, _, _)
ReplaceSecret(keys, ak, sk) ==
    IF keys = <<>> THEN <<>>
    ELSE IF Head(keys).AccessKey = ak
    THEN <<[AccessKey |-> ak, SecretKey |-> sk]>> \o Tail(keys)
    ELSE <<Head(keys)>> \o ReplaceSecret(Tail(keys), ak, sk)

Rank(ak) == CHOOSE i \in DOMAIN AccessKeyOrder : AccessKeyOrder[i] = ak

\* the remote keeps a user's keys ordered by access key
RECURSIVE InsertKey(_, _)
InsertKey(keys, key) ==
    IF keys = <<>> THEN <<key>>
    ELSE IF Rank(key.AccessKey) < Rank(Head(keys).AccessKey) THEN <<key>> \o keys
    ELSE <<Head(keys)>> \o InsertKey(Tail(keys), key)

\* key lists of at most n keys, ordered, with distinct access keys
KeyLists(n) ==
    UNION {{ks \in [1..m -> [AccessKey : AccessKeys, SecretKey : SecretKeys]] :
               \A i, j \in 1..m :
                  i < j => Rank(ks[i].AccessKey) < Rank(ks[j].AccessKey)} :
           m \in 0..n}

----------------------------------------------------------------------------
(* Plan: what the framework hands to Create and Update.  An attribute that *)
(* is not Computed is planned as declared; a Computed attribute left unset *)
(* keeps its recorded value and is marked unknown when the proposed record *)
(* differs from the recorded one; then the attribute's PlanModifiers run   *)
(* in the order the schema lists them.                                     *)

DefaultOpMask == "read, write, delete"
DefaultMaxBuckets == 1000
DefaultSuspended == FALSE

\* stringplanmodifier / int64planmodifier / boolplanmodifier.UseStateForUnknown
UseStateForUnknown(stateValue, planValue) ==
    IF IsNull(stateValue) \/ ~IsUnknown(planValue) THEN planValue ELSE stateValue

\* the default set only for a planned value that is unknown
stringDefaultModifier_UnknownOnly(Default, configValue, planValue) ==
    IF IsNull(configValue) /\ IsUnknown(planValue)
    THEN StringValue(Default)
    ELSE planValue

stringDefaultModifier(Default, configValue, planValue) ==
    IF ~IsNull(planValue) /\ ~(IsNull(configValue) /\ IsUnknown(planValue))
    THEN planValue
    ELSE StringValue(Default)

int64DefaultModifier(Default, configValue, planValue) ==
    IF ~IsNull(planValue) /\ ~(IsNull(configValue) /\ IsUnknown(planValue))
    THEN planValue
    ELSE Int64Value(Default)

boolDefaultModifier(Default, configValue, planValue) ==
    IF ~IsNull(planValue) /\ ~(IsNull(configValue) /\ IsUnknown(planValue))
    THEN planValue
    ELSE BoolValue(Default)

\* the field marked unknown for every flag that is set, whatever it holds
stringPrivateUnknownModifier_AnyFlag(flag, planValue) ==
    IF flag # "nil" THEN StringUnknown ELSE planValue

\* the private key "mark_unknown_<Suffix>" is passed as flag ("nil" when unset)
stringPrivateUnknownModifier(flag, planValue) ==
    IF flag # "nil" /\ flag = "1" THEN StringUnknown ELSE planValue

\* the record proposed before plan modification
ProposedState(cfg, st) ==
    [Id |-> st.data.Id,
     Username |-> cfg.Username,
     DisplayName |-> cfg.DisplayName,
     Email |-> cfg.Email,
     GenerateS3Credentials |-> cfg.GenerateS3Credentials,
     ExclusiveS3Credentials |-> cfg.ExclusiveS3Credentials,
     Caps |-> cfg.Caps,
     OpMask |-> IF IsNull(cfg.OpMask) THEN st.data.OpMask ELSE cfg.OpMask,
     MaxBuckets |-> IF IsNull(cfg.MaxBuckets) THEN st.data.MaxBuckets ELSE cfg.MaxBuckets,
     Suspended |-> IF IsNull(cfg.Suspended) THEN st.data.Suspended ELSE cfg.Suspended,
     Tenant |-> cfg.Tenant,
     AccessKey |-> st.data.AccessKey,
     SecretKey |-> st.data.SecretKey,
     PurgeDataOnDelete |-> cfg.PurgeDataOnDelete]

\* Computed attributes that the configuration leaves null become unknown
MarkComputedUnknown(cfg, p) ==
    [p EXCEPT !.Id = TextUnknown,
              !.OpMask = IF IsNull(cfg.OpMask) THEN StringUnknown ELSE @,
              !.MaxBuckets = IF IsNull(cfg.MaxBuckets) THEN Int64Unknown ELSE @,
              !.Suspended = IF IsNull(cfg.Suspended) THEN BoolUnknown ELSE @,
              !.AccessKey = StringUnknown,
              !.SecretKey = StringUnknown]

\* the schema's PlanModifiers, attribute by attribute
ModifyPlan(cfg, st, priv, p) ==
    [p EXCEPT
       !.Id = UseStateForUnknown(st.data.Id, @),
       !.OpMask = UseStateForUnknown(st.data.OpMask,
                     stringDefaultModifier(DefaultOpMask, cfg.OpMask, @)),
       !.MaxBuckets = UseStateForUnknown(st.data.MaxBuckets,
                     int64DefaultModifier(DefaultMaxBuckets, cfg.MaxBuckets, @)),
       !.Suspended = UseStateForUnknown(st.data.Suspended,
                     boolDefaultModifier(DefaultSuspended, cfg.Suspended, @)),
       !.AccessKey = stringPrivateUnknownModifier(priv.access_key, @),
       !.SecretKey = stringPrivateUnknownModifier(priv.secret_key, @)]

Plan(cfg, st, priv) ==
    LET proposed == ProposedState(cfg, st)
        marked == IF proposed # st.data THEN MarkComputedUnknown(cfg, proposed)
                  ELSE proposed
    IN ModifyPlan(cfg, st, priv, marked)

----------------------------------------------------------------------------
(* UserResource.Create *)

\* rgwUser as Create builds it from the plan
CreateRequest(data) ==
    [ID |-> IF IsNull(data.Tenant) THEN ValueString(data.Username)
            ELSE ValueString(data.Tenant) \o <<"$">> \o ValueString(data.Username),
     DisplayName |-> ValueString(data.DisplayName),
     Email |-> ValueString(data.Email),
     OpMask |-> ValueString(data.OpMask),
     GenerateKey |-> ValueBool(data.GenerateS3Credentials)
                       \/ IsNull(data.GenerateS3Credentials),
     Caps |-> [i \in 1..Len(data.Caps) |->
                 [Type |-> ValueString(data.Caps[i].Type),
                  Perm |-> ValueString(data.Caps[i].Type)]],
     MaxBuckets |-> <<ValueInt64(data.MaxBuckets)>>,
     Suspended |-> <<IF ValueBool(data.Suspended) THEN 1 ELSE 0>>]

\* the user the remote stores for a creation request, with the keys it made
CreatedUser(req, keys) ==
    [ID |-> req.ID, DisplayName |-> req.DisplayName, Email |-> req.Email,
     OpMask |-> req.OpMask, Caps |-> req.Caps, MaxBuckets |-> req.MaxBuckets,
     Suspended |-> req.Suspended, Keys |-> keys]

\* "set access and secret key" without the count: the first key is recorded
\* when there is one, and nothing is reported
CreateSetKeys_FirstKey(data, generateKey, keys) ==
    IF generateKey
    THEN IF Len(keys) >= 1
         THEN [data |-> [data EXCEPT !.AccessKey = StringValue(keys[1].AccessKey),
                                     !.SecretKey = StringValue(keys[1].SecretKey)],
               diags |-> <<>>]
         ELSE [data |-> data, diags |-> <<>>]
    ELSE [data |-> [data EXCEPT !.AccessKey = StringNull, !.SecretKey = StringNull],
          diags |-> <<>>]

\* "set access and secret key"
CreateSetKeys(data, generateKey, keys) ==
    IF generateKey
    THEN IF Len(keys) = 1
         THEN [data |-> [data EXCEPT !.AccessKey = StringValue(keys[1].AccessKey),
                                     !.SecretKey = StringValue(keys[1].SecretKey)],
               diags |-> <<>>]
         ELSE [data |-> data,
               diags |-> <<"api didn't return exactly one s3 key pair",
                           "api didn't return exactly one s3 key pair">>]
    ELSE [data |-> [data EXCEPT !.AccessKey = StringNull, !.SecretKey = StringNull],
          diags |-> <<>>]

\* err: CreateUser failed; createdUser: the remote's answer otherwise
UserResource_Create(data, err, createdUser) ==
    LET req == CreateRequest(data)
        sent == <<Call("CreateUser", req.ID, "")>>
    IN IF err
       THEN [written |-> FALSE, data |-> data,
             diags |-> <<"could not create user">>, calls |-> sent]
       ELSE LET withId == [data EXCEPT !.Id = TextValue(createdUser.ID)]
                k == CreateSetKeys(withId, req.GenerateKey, createdUser.Keys)
            IN [written |-> TRUE, data |-> k.data, diags |-> k.diags, calls |-> sent]

----------------------------------------------------------------------------
(* UserResource.Read *)

RECURSIVE IndexOf(_, _, _)
IndexOf(s, c, i) ==
    IF i > Len(s) THEN 0 ELSE IF s[i] = c THEN i ELSE IndexOf(s, c, i + 1)

\* strings.SplitN(s, c, 2)
SplitN2(s, c) ==
    LET i == IndexOf(s, c, 1)
    IN IF i = 0 THEN <<s>> ELSE <<SubSeq(s, 1, i - 1), SubSeq(s, i + 1, Len(s))>>

\* "update username and tenant" with the two parts taken the other way round
ReadIdentity_Swapped(data, user) ==
    LET splittedId == SplitN2(user.ID, "$")
    IN IF Len(splittedId) = 2
       THEN [data EXCEPT !.Username = TextValue(splittedId[1]),
                         !.Tenant = TextValue(splittedId[2])]
       ELSE [data EXCEPT !.Username = TextValue(user.ID), !.Tenant = TextNull]

\* "update username and tenant"
ReadIdentity(data, user) ==
    LET splittedId == SplitN2(user.ID, "$")
    IN IF Len(splittedId) = 2
       THEN [data EXCEPT !.Username = TextValue(splittedId[2]),
                         !.Tenant = TextValue(splittedId[1])]
       ELSE [data EXCEPT !.Username = TextValue(user.ID), !.Tenant = TextNull]

\* "update email" with an empty remote email always read as unset
ReadEmail_EmptyIsUnset(data, user) ==
    IF user.Email = "" THEN StringNull ELSE StringValue(user.Email)

\* "update email"
ReadEmail(data, user) ==
    LET e1 == IF user.Email # "" \/ ~IsNull(data.Email)
              THEN StringValue(user.Email) ELSE data.Email
    IN IF user.Email = "" /\ ValueString(e1) # "" THEN StringValue("") ELSE e1

\* "update caps"
ReadCaps(data, user) ==
    IF Len(user.Caps) > 0
    THEN [i \in 1..Len(user.Caps) |->
            [Type |-> StringValue(user.Caps[i].Type),
             Perm |-> StringValue(user.Caps[i].Perm)]]
    ELSE data.Caps

\* Read without "update max_buckets" and "update suspended"
ReadQuota_Kept(data, user) == data

\* "update max_buckets", "update suspended", and the op mask taken as well
ReadQuota_WithOpMask(data, user) ==
    [data EXCEPT
       !.OpMask = StringValue(user.OpMask),
       !.MaxBuckets = IF user.MaxBuckets # <<>>
                      THEN Int64Value(user.MaxBuckets[1]) ELSE @,
       !.Suspended = IF user.Suspended # <<>>
                     THEN BoolValue(~(user.Suspended[1] < 1)) ELSE @]

\* "update max_buckets", "update suspended"
ReadQuota(data, user) ==
    [data EXCEPT
       !.MaxBuckets = IF user.MaxBuckets # <<>>
                      THEN Int64Value(user.MaxBuckets[1]) ELSE @,
       !.Suspended = IF user.Suspended # <<>>
                     THEN BoolValue(~(user.Suspended[1] < 1)) ELSE @]

\* a search that finds no key
FirstMatch_None(keys, ak) == <<>>

\* the first key of the list whose access key is ak, as a list of at most one
RECURSIVE FirstMatch(_, _)
FirstMatch(keys, ak) ==
    IF keys = <<>> THEN <<>>
    ELSE IF Head(keys).AccessKey = ak THEN <<Head(keys)>>
    ELSE FirstMatch(Tail(keys), ak)

\* "update credentials" that forgets the recorded access key when no key of
\* the user has it
ReadCredentials_Forgets(data, priv, user) ==
    IF ValueBool(data.GenerateS3Credentials) \/ IsNull(data.GenerateS3Credentials)
    THEN LET noKey == IsNull(data.AccessKey) \/ IsUnknown(data.AccessKey)
             m == IF noKey THEN <<>>
                  ELSE FirstMatch(user.Keys, ValueString(data.AccessKey))
             found == m # <<>>
             p1 == IF noKey THEN [priv EXCEPT !.access_key = "1"]
                   ELSE IF found
                   THEN [priv EXCEPT !.access_key = "0", !.secret_key = "0"]
                   ELSE priv
             p2 == IF ~found THEN [p1 EXCEPT !.secret_key = "1"] ELSE p1
             d1 == IF found
                   THEN [data EXCEPT !.SecretKey = StringValue(m[1].SecretKey)]
                   ELSE [data EXCEPT !.AccessKey = StringNull]
             d2 == IF Len(user.Keys) > 1 \/ (Len(user.Keys) = 1 /\ ~found)
                   THEN [d1 EXCEPT !.ExclusiveS3Credentials = BoolValue(FALSE)]
                   ELSE d1
         IN [data |-> d2, private |-> p2]
    ELSE [data |-> [data EXCEPT !.AccessKey = StringNull, !.SecretKey = StringNull],
          private |-> [priv EXCEPT !.access_key = "0", !.secret_key = "0"]]

\* "update credentials" without the "if !found" block: a key that is not
\* found leaves mark_unknown_secret_key as it was
ReadCredentials_Unmarked(data, priv, user) ==
    IF ValueBool(data.GenerateS3Credentials) \/ IsNull(data.GenerateS3Credentials)
    THEN LET noKey == IsNull(data.AccessKey) \/ IsUnknown(data.AccessKey)
             m == IF noKey THEN <<>>
                  ELSE FirstMatch(user.Keys, ValueString(data.AccessKey))
             found == m # <<>>
             p1 == IF noKey THEN [priv EXCEPT !.access_key = "1"]
                   ELSE IF found
                   THEN [priv EXCEPT !.access_key = "0", !.secret_key = "0"]
                   ELSE priv
             d1 == IF found
                   THEN [data EXCEPT !.SecretKey = StringValue(m[1].SecretKey)]
                   ELSE data
             d2 == IF Len(user.Keys) > 1 \/ (Len(user.Keys) = 1 /\ ~found)
                   THEN [d1 EXCEPT !.ExclusiveS3Credentials = BoolValue(FALSE)]
                   ELSE d1
         IN [data |-> d2, private |-> p1]
    ELSE [data |-> [data EXCEPT !.AccessKey = StringNull, !.SecretKey = StringNull],
          private |-> [priv EXCEPT !.access_key = "0", !.secret_key = "0"]]

\* "update s3 credentials" taking exclusive_s3_credentials back whenever the
\* remote holds a key
ReadCredentials_FlipsAlways(data, priv, user) ==
    IF ValueBool(data.GenerateS3Credentials) \/ IsNull(data.GenerateS3Credentials)
    THEN LET noKey == IsNull(data.AccessKey) \/ IsUnknown(data.AccessKey)
             m == IF noKey THEN <<>>
                  ELSE FirstMatch(user.Keys, ValueString(data.AccessKey))
             found == m # <<>>
             p1 == IF noKey THEN [priv EXCEPT !.access_key = "1"]
                   ELSE IF found
                   THEN [priv EXCEPT !.access_key = "0", !.secret_key = "0"]
                   ELSE priv
             p2 == IF ~found THEN [p1 EXCEPT !.secret_key = "1"] ELSE p1
             d1 == IF found
                   THEN [data EXCEPT !.SecretKey = StringValue(m[1].SecretKey)]
                   ELSE data
             d2 == IF Len(user.Keys) >= 1
                   THEN [d1 EXCEPT !.ExclusiveS3Credentials = BoolValue(FALSE)]
                   ELSE d1
         IN [data |-> d2, private |-> p2]
    ELSE [data |-> [data EXCEPT !.AccessKey = StringNull, !.SecretKey = StringNull],
          private |-> [priv EXCEPT !.access_key = "0", !.secret_key = "0"]]

\* "update credentials": the record and the private flags after the block
ReadCredentials(data, priv, user) ==
    IF ValueBool(data.GenerateS3Credentials) \/ IsNull(data.GenerateS3Credentials)
    THEN LET noKey == IsNull(data.AccessKey) \/ IsUnknown(data.AccessKey)
             m == IF noKey THEN <<>>
                  ELSE FirstMatch(user.Keys, ValueString(data.AccessKey))
             found == m # <<>>
             p1 == IF noKey THEN [priv EXCEPT !.access_key = "1"]
                   ELSE IF found
                   THEN [priv EXCEPT !.access_key = "0", !.secret_key = "0"]
                   ELSE priv
             p2 == IF ~found THEN [p1 EXCEPT !.secret_key = "1"] ELSE p1
             d1 == IF found
                   THEN [data EXCEPT !.SecretKey = StringValue(m[1].SecretKey)]
                   ELSE data
             d2 == IF Len(user.Keys) > 1 \/ (Len(user.Keys) = 1 /\ ~found)
                   THEN [d1 EXCEPT !.ExclusiveS3Credentials = BoolValue(FALSE)]
                   ELSE d1
         IN [data |-> d2, private |-> p2]
    ELSE [data |-> [data EXCEPT !.AccessKey = StringNull, !.SecretKey = StringNull],
          private |-> [priv EXCEPT !.access_key = "0", !.secret_key = "0"]]

\* a failed GetUser without the ErrNoSuchUser branch
ReadGetUserError_Kept(data, priv, answer) ==
    [written |-> FALSE, removed |-> FALSE, data |-> data, private |-> priv,
     diags |-> <<"could not get user">>]

\* what Read does with a failed GetUser
ReadGetUserError(data, priv, answer) ==
    IF answer = "ErrNoSuchUser"
    THEN [written |-> FALSE, removed |-> TRUE, data |-> data, private |-> priv,
          diags |-> <<>>]
    ELSE [written |-> FALSE, removed |-> FALSE, data |-> data, private |-> priv,
          diags |-> <<"could not get user">>]

\* "prepare request attributes"
ReadRequest(data) == [ID |-> ValueString(data.Id)]

\* Read removing, after GetUser, every key that is not the recorded one
ReadCalls_Cleaning(data, user) ==
    <<Call("GetUser", ReadRequest(data).ID, "")>>
    \o [i \in 1..Len(user.Keys) |->
          Call("RemoveKey", user.ID, user.Keys[i].AccessKey)]

\* the remote calls of Read: "get user"
ReadCalls(data, user) == <<Call("GetUser", ReadRequest(data).ID, "")>>

\* answer: "ok" or the error of GetUser; user: the remote's answer when ok
UserResource_Read(data, priv, answer, user) ==
    IF answer # "ok"
    THEN ReadGetUserError(data, priv, answer)
    ELSE IF ValueString(data.Id) # user.ID
    THEN [written |-> FALSE, removed |-> FALSE, data |-> data, private |-> priv,
          diags |-> <<"api returned wrong user">>]
    ELSE LET d1 == ReadIdentity(data, user)
             d2 == [d1 EXCEPT !.DisplayName = StringValue(user.DisplayName),
                              !.Email = ReadEmail(d1, user),
                              !.Caps = ReadCaps(d1, user)]
             d3 == ReadQuota(d2, user)
             c == ReadCredentials(d3, priv, user)
         IN [written |-> TRUE, removed |-> FALSE, data |-> c.data,
             private |-> c.private, diags |-> <<>>]

----------------------------------------------------------------------------
(* UserResource.Update *)

\* the api request struct of Update with the username in place of the
\* recorded id
UpdateRequest_ByUsername(data) ==
    [ID |-> ValueString(data.Username),
     DisplayName |-> ValueString(data.DisplayName),
     Email |-> ValueString(data.Email),
     OpMask |-> ValueString(data.OpMask),
     GenerateKey |-> FALSE,
     Caps |-> [i \in 1..Len(data.Caps) |->
                 [Type |-> ValueString(data.Caps[i].Type),
                  Perm |-> ValueString(data.Caps[i].Type)]],
     MaxBuckets |-> <<ValueInt64(data.MaxBuckets)>>,
     Suspended |-> <<IF ValueBool(data.Suspended) THEN 1 ELSE 0>>]

\* the api request struct of Update ("do not generate key here")
UpdateRequest(data) ==
    [ID |-> ValueString(data.Id),
     DisplayName |-> ValueString(data.DisplayName),
     Email |-> ValueString(data.Email),
     OpMask |-> ValueString(data.OpMask),
     GenerateKey |-> FALSE,
     Caps |-> [i \in 1..Len(data.Caps) |->
                 [Type |-> ValueString(data.Caps[i].Type),
                  Perm |-> ValueString(data.Caps[i].Type)]],
     MaxBuckets |-> <<ValueInt64(data.MaxBuckets)>>,
     Suspended |-> <<IF ValueBool(data.Suspended) THEN 1 ELSE 0>>]

\* the user the remote holds after a ModifyUser: its keys are left alone
ModifiedUser(user, req) ==
    [user EXCEPT !.DisplayName = req.DisplayName, !.Email = req.Email,
                 !.OpMask = req.OpMask, !.Caps = req.Caps,
                 !.MaxBuckets = req.MaxBuckets, !.Suspended = req.Suspended]

\* the remote's key list after a CreateKey for access key ak: an empty access
\* key makes the remote choose one (gen); a key the user already holds gets a
\* new secret
RemoteCreateKey(keys, ak, sk, gen) ==
    IF ak = "" THEN InsertKey(keys, [AccessKey |-> gen, SecretKey |-> sk])
    ELSE IF ak \in KeyIds(keys) THEN ReplaceSecret(keys, ak, sk)
    ELSE InsertKey(keys, [AccessKey |-> ak, SecretKey |-> sk])

\* Update never removing, and always removing, a key that did not match
UpdateRemoves_Never(data) == FALSE
UpdateRemoves_Always(data) == TRUE

\* whether Update removes a key that did not match
UpdateRemoves(data) ==
    ValueBool(data.ExclusiveS3Credentials) \/ IsNull(data.ExclusiveS3Credentials)

RECURSIVE UpdateKeyLoop_Stopping(_, _, _, _, _)
RECURSIVE UpdateKeyLoop(_, _, _, _, _)

\* the loop over user.Keys left at the first RemoveKey that fails
UpdateKeyLoop_Stopping(data, uid, rest, fails, acc) ==
    IF rest = <<>> THEN acc
    ELSE LET k == Head(rest)
         IN IF ~IsNull(data.AccessKey) /\ IsUnknown(acc.SecretKey)
               /\ k.AccessKey = ValueString(data.AccessKey)
            THEN UpdateKeyLoop_Stopping(data, uid, Tail(rest), fails,
                    [acc EXCEPT !.SecretKey = StringValue(k.SecretKey),
                                !.private.secret_key = "0"])
            ELSE IF UpdateRemoves(data) /\ k.AccessKey \in fails
            THEN [acc EXCEPT
                    !.calls = Append(@, Call("RemoveKey", uid, k.AccessKey)),
                    !.diags = Append(@, "could not remove access key")]
            ELSE IF UpdateRemoves(data)
            THEN UpdateKeyLoop_Stopping(data, uid, Tail(rest), fails,
                    [acc EXCEPT
                       !.calls = Append(@, Call("RemoveKey", uid, k.AccessKey)),
                       !.keys = WithoutKey(@, k.AccessKey)])
            ELSE UpdateKeyLoop_Stopping(data, uid, Tail(rest), fails, acc)

\* the loop over user.Keys; rest: the keys still to visit; fails: the access
\* keys whose RemoveKey call fails; acc: [SecretKey, private, diags, calls, keys]
UpdateKeyLoop(data, uid, rest, fails, acc) ==
    IF rest = <<>> THEN acc
    ELSE LET k == Head(rest)
         IN IF ~IsNull(data.AccessKey) /\ IsUnknown(acc.SecretKey)
               /\ k.AccessKey = ValueString(data.AccessKey)
            THEN UpdateKeyLoop(data, uid, Tail(rest), fails,
                    [acc EXCEPT !.SecretKey = StringValue(k.SecretKey),
                                !.private.secret_key = "0"])
            ELSE IF UpdateRemoves(data)
            THEN UpdateKeyLoop(data, uid, Tail(rest), fails,
                    [acc EXCEPT
                       !.calls = Append(@, Call("RemoveKey", uid, k.AccessKey)),
                       !.diags = IF k.AccessKey \in fails
                                 THEN Append(@, "could not remove access key")
                                 ELSE @,
                       !.keys = IF k.AccessKey \in fails THEN @
                                ELSE WithoutKey(@, k.AccessKey)])
            ELSE UpdateKeyLoop(data, uid, Tail(rest), fails, acc)

\* "Secret key still null" with the access key drawn whether or not the plan
\* has one
UpdateCreateKey_Drawn(data, uid, acc, rnd, ck, sk, gen) ==
    LET AccessKey == StringValue(rnd)
        sent == Append(acc.calls, Call("CreateKey", uid, ValueString(AccessKey)))
    IN IF ck = "err"
       THEN [written |-> FALSE, data |-> data, private |-> acc.private,
             diags |-> Append(acc.diags, "could not generate s3 credentials"),
             calls |-> sent, keys |-> acc.keys, panicked |-> FALSE]
       ELSE LET made == RemoteCreateKey(acc.keys, ValueString(AccessKey), sk, gen)
                keys == IF ck = "all" THEN made ELSE <<>>
                m == FirstMatch(keys, ValueString(AccessKey))
            IN IF m = <<>>
               THEN [written |-> TRUE,
                     data |-> [data EXCEPT !.AccessKey = AccessKey],
                     private |-> acc.private,
                     diags |-> Append(acc.diags,
                        "could not find expected s3 credentials in api response"),
                     calls |-> sent, keys |-> made, panicked |-> FALSE]
               ELSE [written |-> TRUE,
                     data |-> [data EXCEPT !.AccessKey = AccessKey,
                                 !.SecretKey = StringValue(m[1].SecretKey)],
                     private |-> [access_key |-> "0", secret_key |-> "0"],
                     diags |-> acc.diags, calls |-> sent, keys |-> made,
                     panicked |-> FALSE]

\* "Secret key still null": rnd is the access key drawn at random, ck the
\* outcome of CreateKey ("all": the user's keys come back, "empty": an empty
\* list comes back, "nil": no list comes back, "err": the call fails), sk the
\* secret the remote makes.  With no list, the scan is skipped and the error
\* message dereferences the nil list: the provider panics, its response is
\* lost, and the caller reports the crash as the operation's error.
UpdateCreateKey(data, uid, acc, rnd, ck, sk, gen) ==
    LET AccessKey == IF IsUnknown(data.AccessKey) THEN StringValue(rnd)
                     ELSE data.AccessKey
        sent == Append(acc.calls, Call("CreateKey", uid, ValueString(AccessKey)))
    IN IF ck = "err"
       THEN [written |-> FALSE, data |-> data, private |-> acc.private,
             diags |-> Append(acc.diags, "could not generate s3 credentials"),
             calls |-> sent, keys |-> acc.keys, panicked |-> FALSE]
       ELSE IF ck = "nil"
       THEN [written |-> FALSE, data |-> data, private |-> acc.private,
             diags |-> <<"plugin crashed">>, calls |-> sent,
             keys |-> RemoteCreateKey(acc.keys, ValueString(AccessKey), sk, gen),
             panicked |-> TRUE]
       ELSE LET made == RemoteCreateKey(acc.keys, ValueString(AccessKey), sk, gen)
                keys == IF ck = "all" THEN made ELSE <<>>
                m == FirstMatch(keys, ValueString(AccessKey))
            IN IF m = <<>>
               THEN [written |-> TRUE,
                     data |-> [data EXCEPT !.AccessKey = AccessKey],
                     private |-> acc.private,
                     diags |-> Append(acc.diags,
                        "could not find expected s3 credentials in api response"),
                     calls |-> sent, keys |-> made, panicked |-> FALSE]
               ELSE [written |-> TRUE,
                     data |-> [data EXCEPT !.AccessKey = AccessKey,
                                 !.SecretKey = StringValue(m[1].SecretKey)],
                     private |-> [access_key |-> "0", secret_key |-> "0"],
                     diags |-> acc.diags, calls |-> sent, keys |-> made,
                     panicked |-> FALSE]

\* "manage s3 keys"; user: the remote's answer to ModifyUser
UpdateManageKeys(data, priv, user, fails, rnd, ck, sk, gen) ==
    LET acc0 == [SecretKey |-> data.SecretKey, private |-> priv, diags |-> <<>>,
                 calls |-> <<Call("ModifyUser", UpdateRequest(data).ID, "")>>,
                 keys |-> user.Keys]
    IN IF IsUnknown(data.SecretKey)
       THEN LET acc == UpdateKeyLoop(data, user.ID, user.Keys, fails, acc0)
            IN IF IsUnknown(acc.SecretKey)
               THEN UpdateCreateKey(data, user.ID, acc, rnd, ck, sk, gen)
               ELSE [written |-> TRUE,
                     data |-> [data EXCEPT !.SecretKey = acc.SecretKey],
                     private |-> acc.private, diags |-> acc.diags,
                     calls |-> acc.calls, keys |-> acc.keys, panicked |-> FALSE]
       ELSE [written |-> TRUE, data |-> data, private |-> priv, diags |-> <<>>,
             calls |-> acc0.calls, keys |-> user.Keys, panicked |-> FALSE]

\* Update going on to the keys although ModifyUser failed
UserResource_Update_KeysAnyway(data, priv, modErr, user, fails, rnd, ck, sk, gen) ==
    LET r == UpdateManageKeys(data, priv, user, fails, rnd, ck, sk, gen)
    IN IF modErr
       THEN [r EXCEPT !.written = FALSE, !.data = data, !.private = priv,
                      !.diags = <<"could not modify user">>]
       ELSE r

\* Update saving the plan although ModifyUser failed
UserResource_Update_SavesOnError(data, priv, modErr, user, fails, rnd, ck, sk, gen) ==
    IF modErr
    THEN [written |-> TRUE, data |-> data,
          private |-> [access_key |-> "0", secret_key |-> "0"],
          diags |-> <<"could not modify user">>,
          calls |-> <<Call("ModifyUser", UpdateRequest(data).ID, "")>>,
          keys |-> user.Keys, panicked |-> FALSE]
    ELSE UpdateManageKeys(data, priv, user, fails, rnd, ck, sk, gen)

\* modErr: ModifyUser failed
UserResource_Update(data, priv, modErr, user, fails, rnd, ck, sk, gen) ==
    IF modErr
    THEN [written |-> FALSE, data |-> data, private |-> priv,
          diags |-> <<"could not modify user">>,
          calls |-> <<Call("ModifyUser", UpdateRequest(data).ID, "")>>,
          keys |-> user.Keys, panicked |-> FALSE]
    ELSE UpdateManageKeys(data, priv, user, fails, rnd, ck, sk, gen)

----------------------------------------------------------------------------
(* UserResource.Delete *)

\* Delete without the ErrNoSuchUser exception
UserResource_Delete_Strict(data, answer) ==
    [diags |-> IF answer # "ok" THEN <<"could not delete user">> ELSE <<>>,
     calls |-> <<Call("RemoveUser", ValueString(data.Id), "")>>]

UserResource_Delete(data, answer) ==
    [diags |-> IF answer # "ok" /\ answer # "ErrNoSuchUser"
               THEN <<"could not delete user">> ELSE <<>>,
     calls |-> <<Call("RemoveUser", ValueString(data.Id), "")>>]

----------------------------------------------------------------------------
(* The user resource as a state machine *)

Tenant0 == <<"t">>

Tristate == {BoolNull, BoolValue(TRUE), BoolValue(FALSE)}

Config0 ==
    [Username |-> TextValue(<<"u">>), DisplayName |-> StringValue("Alice"),
     Email |-> StringNull, GenerateS3Credentials |-> BoolNull,
     ExclusiveS3Credentials |-> BoolNull, Caps |-> <<>>, OpMask |-> StringNull,
     MaxBuckets |-> Int64Null, Suspended |-> BoolNull,
     Tenant |-> TextValue(Tenant0), PurgeDataOnDelete |-> BoolNull]

\* stringvalidator.NoneOf(values...): the value is none of the listed strings
NoneOf(values, s) == \A i \in DOMAIN values : s # values[i]

\* the validators of the schema: username has NoneOf("$")
ValidateConfig(cfg) == NoneOf(<<(<<"$">>)>>, ValueString(cfg.Username))

\* RequiresReplace on username and tenant: a plan that changes one of them
\* replaces the user instead of updating it
RequiresReplace(data, st) ==
    data.Username # st.data.Username \/ data.Tenant # st.data.Tenant

GetUserAnswers == {"ok", "ErrNoSuchUser", "ErrAccessDenied"}

\* the record as it is saved after State.Set: a value left unknown is saved
\* as null, and a record that Create sets while reporting an error is tainted
Saved(data, tainted) ==
    [present |-> TRUE, tainted |-> tainted,
     data |-> [data EXCEPT !.AccessKey = IF IsUnknown(@) THEN StringNull ELSE @,
                           !.SecretKey = IF IsUnknown(@) THEN StringNull ELSE @]]

NoPlan == [AccessKey |-> StringNull, SecretKey |-> StringNull]
PlannedKeys(data) == [AccessKey |-> data.AccessKey, SecretKey |-> data.SecretKey]

\* what an operation leaves in the bookkeeping variables
DoneWith(op, a, d, c, r, p, crash, ka, fl) ==
    /\ failed' = fl
    /\ planned' = p
    /\ panicked' = crash
    /\ keyAnswer' = ka
    /\ lastOp' = op
    /\ lastAnswer' = a
    /\ diags' = d
    /\ calls' = c
    /\ removed' = r
    /\ UNCHANGED <<bvars, resolution, marking>>

Done(op, a, d, c, r, p) == DoneWith(op, a, d, c, r, p, FALSE, "none", {})

UserInit ==
    /\ config \in {[Config0 EXCEPT !.GenerateS3Credentials = g,
                                   !.ExclusiveS3Credentials = e] :
                      g \in Tristate, e \in Tristate}
    /\ state = NoState
    /\ private = NoPrivate
    /\ remote = NoRemote
    /\ lastOp = "none"
    /\ lastAnswer = "none"
    /\ planned = NoPlan
    /\ panicked = FALSE
    /\ keyAnswer = "none"
    /\ failed = {}
    /\ diags = <<>>
    /\ calls = <<>>
    /\ removed = FALSE

\* the declaration changes: a new display name
ChangeConfig ==
    /\ config.DisplayName = StringValue("Alice")
    /\ config' = [config EXCEPT !.DisplayName = StringValue("Bob")]
    /\ Done("Config", "none", <<>>, <<>>, FALSE, NoPlan)
    /\ UNCHANGED <<state, private, remote>>

\* the remote answers a creation with the user it stored; a user that exists
\* already is refused, and keys are made only when asked for
Create ==
    /\ ~state.present
    /\ ValidateConfig(config)
    /\ \E a \in {"ok", "Err"}, keys \in KeyLists(MaxKeys) :
          LET data == Plan(config, NoState, NoPrivate)
              req == CreateRequest(data)
              r == UserResource_Create(data, a # "ok", CreatedUser(req, keys))
          IN /\ remote.exists => a # "ok"
             /\ a # "ok" => keys = <<>>
             /\ ~req.GenerateKey => keys = <<>>
             /\ state' = IF r.written THEN Saved(r.data, HasError(r.diags))
                         ELSE state
             /\ private' = NoPrivate
             /\ remote' = IF a # "ok" THEN remote
                          ELSE [exists |-> TRUE, user |-> CreatedUser(req, keys)]
             /\ Done("Create", a, r.diags, r.calls, FALSE, PlannedKeys(data))
    /\ UNCHANGED config

\* a Read that GetUser answers with answer, and with user when it is "ok"; a
\* is what is noted of the answer
ReadStep(a, answer, user) ==
    \E r \in {UserResource_Read(state.data, private, answer, user)} :
       /\ state' = IF r.removed THEN NoState
                   ELSE IF r.written THEN Saved(r.data, state.tainted)
                   ELSE state
       /\ private' = IF r.removed THEN NoPrivate ELSE r.private
       /\ Done("Read", a, r.diags, ReadCalls(state.data, user), r.removed, NoPlan)
       /\ UNCHANGED <<config, remote>>

Read ==
    /\ state.present
    /\ \E a \in GetUserAnswers :
          /\ a = "ok" => remote.exists
          /\ a = "ErrNoSuchUser" => ~remote.exists
          /\ ReadStep(a, a, remote.user)

\* the inputs an Update can meet: a: the answer to ModifyUser; fails: the
\* access keys whose RemoveKey fails; rnd: the access key drawn at random,
\* twenty characters that are taken to differ from every key the remote holds
\* when CreateKey is sent; ck: the outcome of CreateKey; sk: the secret the
\* remote makes; gen: the access key the remote chooses when none is sent.  An
\* input the run does not use is held at one value.
UpdateInputs(data) ==
    LET keyed == IsUnknown(data.SecretKey)
        ids == KeyIds(remote.user.Keys)
        draws == keyed /\ IsUnknown(data.AccessKey)
    IN {[a |-> "Err", fails |-> {}, rnd |-> "AK1", ck |-> "all", sk |-> "SK1",
         gen |-> "AK1"]}
       \cup
       (IF ~remote.exists THEN {}
        ELSE {in \in [a : {"ok"},
                      fails : IF keyed /\ UpdateRemoves(data)
                              THEN SUBSET ids ELSE {{}},
                      rnd : IF draws THEN AccessKeys ELSE {"AK1"},
                      ck : IF keyed THEN {"all", "empty", "nil", "err"}
                           ELSE {"all"},
                      sk : IF keyed THEN SecretKeys ELSE {"SK1"},
                      gen : IF keyed /\ IsNull(data.AccessKey)
                            THEN AccessKeys \ ids ELSE {"AK1"}] :
                 /\ in.ck # "all" => in.sk = "SK1"
                 /\ draws => in.rnd \notin (IF UpdateRemoves(data) THEN in.fails
                                            ELSE ids)})

\* what Update does with input in on the plan data
UpdateRun(data, in) ==
    UserResource_Update(data, private, in.a # "ok",
        IF in.a # "ok" THEN remote.user
        ELSE ModifiedUser(remote.user, UpdateRequest(data)),
        in.fails, in.rnd, in.ck, in.sk, in.gen)

\* an Update of the plan data that meets input in
UpdateStep(data, in) ==
    \E r \in {UpdateRun(data, in)} :
       /\ Len(r.keys) <= MaxKeys
       /\ state' = IF r.written THEN Saved(r.data, FALSE) ELSE state
       /\ private' = r.private
       /\ remote' = IF in.a # "ok" THEN remote
                    ELSE [exists |-> TRUE,
                          user |-> [ModifiedUser(remote.user, UpdateRequest(data))
                                    EXCEPT !.Keys = r.keys]]
       /\ DoneWith("Update", in.a, r.diags, r.calls, FALSE, PlannedKeys(data),
                   r.panicked,
                   IF \E i \in DOMAIN r.calls : r.calls[i].op = "CreateKey"
                   THEN in.ck ELSE "none",
                   {r.calls[i].ak : i \in {j \in DOMAIN r.calls :
                                              r.calls[j].op = "RemoveKey"}}
                      \cap in.fails)
       /\ UNCHANGED config

\* whether the framework calls Update: the plan differs from the record and
\* nothing forces a replacement; a tainted record is replaced, never updated
UpdateDue(data) ==
    /\ state.present
    /\ ~state.tainted
    /\ data # state.data
    /\ ~RequiresReplace(data, state)

Update ==
    LET data == Plan(config, state, private)
    IN /\ UpdateDue(data)
       /\ \E in \in UpdateInputs(data) : UpdateStep(data, in)

Delete ==
    /\ state.present
    /\ \E a \in {"ok", "ErrNoSuchUser", "ErrAccessDenied"} :
          LET r == UserResource_Delete(state.data, a)
          IN /\ a = "ok" => remote.exists
             /\ a = "ErrNoSuchUser" => ~remote.exists
             /\ state' = IF HasError(r.diags) THEN state ELSE NoState
             /\ private' = IF HasError(r.diags) THEN private ELSE NoPrivate
             /\ remote' = IF a = "ok" THEN NoRemote ELSE remote
             /\ Done("Delete", a, r.diags, r.calls, FALSE, NoPlan)
    /\ UNCHANGED config

\* somebody else adds a key to the remote user
EnvAddKey ==
    /\ remote.exists
    /\ Len(remote.user.Keys) < MaxKeys
    /\ \E ak \in AccessKeys \ KeyIds(remote.user.Keys), sk \in SecretKeys :
          remote' = [remote EXCEPT !.user.Keys =
                        InsertKey(@, [AccessKey |-> ak, SecretKey |-> sk])]
    /\ Done("Env", "none", <<>>, <<>>, FALSE, NoPlan)
    /\ UNCHANGED <<config, state, private>>

\* somebody else removes a key of the remote user
EnvRemoveKey ==
    /\ remote.exists
    /\ \E ak \in KeyIds(remote.user.Keys) :
          remote' = [remote EXCEPT !.user.Keys = WithoutKey(@, ak)]
    /\ Done("Env", "none", <<>>, <<>>, FALSE, NoPlan)
    /\ UNCHANGED <<config, state, private>>

\* somebody else removes the remote user
EnvRemoveUser ==
    /\ remote.exists
    /\ remote' = NoRemote
    /\ Done("Env", "none", <<>>, <<>>, FALSE, NoPlan)
    /\ UNCHANGED <<config, state, private>>

Next ==
    \/ ChangeConfig
    \/ Create
    \/ Read
    \/ Update
    \/ Delete
    \/ EnvAddKey
    \/ EnvRemoveKey
    \/ EnvRemoveUser

----------------------------------------------------------------------------
(* The user resource with its identity and its attributes declared in every *)
(* way, one key and one secret, and a remote whose attributes others change *)

MaxNameLen == 2     \* most characters of a declared username

\* the strings of 1 to n characters over a letter and the separator
Names(n) == UNION {[1..m -> {"u", "$"}] : m \in 1..n}

Tenants == {TextNull, TextValue(Tenant0), TextValue(Tenant0 \o <<"$">>)}

Cap(type, perm) == [Type |-> StringValue(type), Perm |-> StringValue(perm)]

\* admin.UserCapSpec as the remote lists it
RemoteCap(type, perm) == [Type |-> type, Perm |-> perm]

ConfigNoKeys == [Config0 EXCEPT !.GenerateS3Credentials = BoolValue(FALSE)]

IdentityConfigs ==
    {[ConfigNoKeys EXCEPT !.Username = TextValue(n), !.Tenant = t] :
        n \in Names(MaxNameLen), t \in Tenants}

AttributeConfigs ==
    {[ConfigNoKeys EXCEPT !.Caps = c, !.MaxBuckets = m, !.Suspended = s] :
        c \in {<<>>, <<Cap("users", "read"), Cap("buckets", "write")>>},
        m \in {Int64Null, Int64Value(500)},
        s \in {BoolNull, BoolValue(TRUE)}}
    \cup {[ConfigNoKeys EXCEPT !.OpMask = StringValue("read")]}

AttrsInit ==
    /\ config \in IdentityConfigs \cup AttributeConfigs
    /\ state = NoState
    /\ private = NoPrivate
    /\ remote = NoRemote
    /\ lastOp = "none"
    /\ lastAnswer = "none"
    /\ planned = NoPlan
    /\ panicked = FALSE
    /\ keyAnswer = "none"
    /\ failed = {}
    /\ diags = <<>>
    /\ calls = <<>>
    /\ removed = FALSE

\* Read as before, and a Read that GetUser answers with another user
AttrsRead ==
    /\ state.present
    /\ \/ \E a \in GetUserAnswers :
             /\ a = "ok" => remote.exists
             /\ a = "ErrNoSuchUser" => ~remote.exists
             /\ ReadStep(a, a, remote.user)
       \/ /\ remote.exists
          /\ ReadStep("okOther", "ok", [remote.user EXCEPT !.ID = <<"o">>])

\* Update with the first access key drawn and the first secret made, and no
\* key call failing
AttrsUpdateInputs ==
    {[a |-> "Err", fails |-> {}, rnd |-> "AK1", ck |-> "all", sk |-> "SK1",
      gen |-> "AK1"]}
    \cup
    (IF ~remote.exists THEN {}
     ELSE {[a |-> "ok", fails |-> {}, rnd |-> "AK1", ck |-> "all", sk |-> "SK1",
            gen |-> "AK1"]})

AttrsUpdate ==
    LET data == Plan(config, state, private)
    IN /\ UpdateDue(data)
       /\ \E in \in AttrsUpdateInputs : UpdateStep(data, in)

\* somebody else sets the remote user's max_buckets and suspended
EnvSetQuota ==
    /\ remote.exists
    /\ \E m \in {500, 1000}, s \in {0, 1} :
          /\ <<m, s>> # <<remote.user.MaxBuckets[1], remote.user.Suspended[1]>>
          /\ remote' = [remote EXCEPT !.user.MaxBuckets = <<m>>,
                                      !.user.Suspended = <<s>>]
    /\ Done("Env", "none", <<>>, <<>>, FALSE, NoPlan)
    /\ UNCHANGED <<config, state, private>>

\* somebody else sets the remote user's capabilities
EnvSetCaps ==
    /\ remote.exists
    /\ \E c \in {<<>>, <<RemoteCap("buckets", "write"),
                        RemoteCap("users", "read")>>} :
          /\ c # remote.user.Caps
          /\ remote' = [remote EXCEPT !.user.Caps = c]
    /\ Done("Env", "none", <<>>, <<>>, FALSE, NoPlan)
    /\ UNCHANGED <<config, state, private>>

\* somebody else sets the remote user's op mask
EnvSetOpMask ==
    /\ remote.exists
    /\ \E o \in {DefaultOpMask, "read"} :
          /\ o # remote.user.OpMask
          /\ remote' = [remote EXCEPT !.user.OpMask = o]
    /\ Done("Env", "none", <<>>, <<>>, FALSE, NoPlan)
    /\ UNCHANGED <<config, state, private>>

NextAttrs ==
    \/ ChangeConfig
    \/ Create
    \/ AttrsRead
    \/ AttrsUpdate
    \/ Delete
    \/ EnvSetQuota
    \/ EnvSetCaps
    \/ EnvSetOpMask

----------------------------------------------------------------------------
(* The cycle of Read, plan and Update on a fixed declaration: the remote    *)
(* answers every call, and is changed behind the provider's back only       *)
(* between the creation and the first Read                                  *)

\* Create answered with the user as asked for: one key when one is asked for
SettleCreate ==
    /\ ~state.present
    /\ ~remote.exists
    /\ \E keys \in KeyLists(1) :
          LET data == Plan(config, NoState, NoPrivate)
              req == CreateRequest(data)
              r == UserResource_Create(data, FALSE, CreatedUser(req, keys))
          IN /\ Len(keys) = (IF req.GenerateKey THEN 1 ELSE 0)
             /\ state' = IF r.written THEN Saved(r.data, HasError(r.diags))
                         ELSE state
             /\ private' = NoPrivate
             /\ remote' = [exists |-> TRUE, user |-> CreatedUser(req, keys)]
             /\ Done("Create", "ok", r.diags, r.calls, FALSE, PlannedKeys(data))
    /\ UNCHANGED config

\* the remote changes before the first Read
DriftAddKey == lastOp \in {"Create", "Env"} /\ EnvAddKey

DriftRemoveKey == lastOp \in {"Create", "Env"} /\ EnvRemoveKey

\* Read answered with the user
SettleRead ==
    /\ state.present
    /\ remote.exists
    /\ ReadStep("ok", "ok", remote.user)

\* Update with every call answered and CreateKey returning the user's keys
SettleUpdate ==
    \E data \in {Plan(config, state, private)} :
       /\ UpdateDue(data)
       /\ \E in \in UpdateInputs(data) :
             /\ in.a = "ok"
             /\ in.fails = {}
             /\ in.ck = "all"
             /\ UpdateStep(data, in)

NextSettle ==
    \/ SettleCreate
    \/ DriftAddKey
    \/ DriftRemoveKey
    \/ SettleRead
    \/ SettleUpdate

----------------------------------------------------------------------------
(* The user resource with its email: declared unset, empty or set, and      *)
(* changed at the remote behind the provider's back                         *)

Emails == {"", "a@x", "b@x"}

EmailInit ==
    /\ config \in {[ConfigNoKeys EXCEPT !.Email = e] :
                      e \in {StringNull} \cup {StringValue(m) : m \in Emails}}
    /\ state = NoState
    /\ private = NoPrivate
    /\ remote = NoRemote
    /\ lastOp = "none"
    /\ lastAnswer = "none"
    /\ planned = NoPlan
    /\ panicked = FALSE
    /\ keyAnswer = "none"
    /\ failed = {}
    /\ diags = <<>>
    /\ calls = <<>>
    /\ removed = FALSE

\* somebody else sets the remote user's email
EnvSetEmail ==
    /\ remote.exists
    /\ \E m \in Emails :
          /\ m # remote.user.Email
          /\ remote' = [remote EXCEPT !.user.Email = m]
    /\ Done("Env", "none", <<>>, <<>>, FALSE, NoPlan)
    /\ UNCHANGED <<config, state, private>>

NextEmail ==
    \/ Create
    \/ Read
    \/ AttrsUpdate
    \/ EnvSetEmail

----------------------------------------------------------------------------
(* Default resolution alone: the three default modifiers on every pair of   *)
(* declared and planned value the framework can hand them                   *)

\* the pairs of declared and planned value a modifier can get: a declared
\* value is planned as it is, and an attribute left unset is planned null,
\* unknown, or as recorded
ModifierInputs(null, unknown, values) ==
    {[config |-> v, plan |-> v] : v \in values \cup {unknown}}
    \cup {[config |-> null, plan |-> p] : p \in values \cup {null, unknown}}

Unresolved(in) == [config |-> in.config, plan |-> in.plan, out |-> in.plan,
                   done |-> FALSE]

NoResolution ==
    [op_mask |-> Unresolved([config |-> StringNull, plan |-> StringNull]),
     max_buckets |-> Unresolved([config |-> Int64Null, plan |-> Int64Null]),
     suspended |-> Unresolved([config |-> BoolNull, plan |-> BoolNull])]

DefaultsInit ==
    \E o \in ModifierInputs(StringNull, StringUnknown,
                  {StringValue(DefaultOpMask), StringValue("read")}),
       m \in ModifierInputs(Int64Null, Int64Unknown,
                  {Int64Value(DefaultMaxBuckets), Int64Value(500)}),
       b \in ModifierInputs(BoolNull, BoolUnknown,
                  {BoolValue(DefaultSuspended), BoolValue(TRUE)}) :
       resolution = [op_mask |-> Unresolved(o), max_buckets |-> Unresolved(m),
                     suspended |-> Unresolved(b)]

ResolveOpMask ==
    /\ ~resolution.op_mask.done
    /\ resolution' =
          [resolution EXCEPT
             !.op_mask.out = stringDefaultModifier(DefaultOpMask,
                                resolution.op_mask.config, resolution.op_mask.plan),
             !.op_mask.done = TRUE]
    /\ UNCHANGED <<uvars, bvars, marking>>

ResolveMaxBuckets ==
    /\ ~resolution.max_buckets.done
    /\ resolution' =
          [resolution EXCEPT
             !.max_buckets.out = int64DefaultModifier(DefaultMaxBuckets,
                                    resolution.max_buckets.config,
                                    resolution.max_buckets.plan),
             !.max_buckets.done = TRUE]
    /\ UNCHANGED <<uvars, bvars, marking>>

ResolveSuspended ==
    /\ ~resolution.suspended.done
    /\ resolution' =
          [resolution EXCEPT
             !.suspended.out = boolDefaultModifier(DefaultSuspended,
                                  resolution.suspended.config,
                                  resolution.suspended.plan),
             !.suspended.done = TRUE]
    /\ UNCHANGED <<uvars, bvars, marking>>

NextDefaults ==
    \/ ResolveOpMask
    \/ ResolveMaxBuckets
    \/ ResolveSuspended

----------------------------------------------------------------------------
(* Marking alone: the private-flag modifier of access_key and secret_key on *)
(* every flag and planned value it can get                                  *)

Unmarked(flag, plan) == [flag |-> flag, plan |-> plan, out |-> plan, done |-> FALSE]

NoMarking ==
    [access_key |-> Unmarked("nil", StringNull),
     secret_key |-> Unmarked("nil", StringNull)]

\* a flag is unset, or holds what Read and Update wrote last
MarksInit ==
    \E fa \in {"nil", "0", "1"}, fs \in {"nil", "0", "1"},
       pa \in {StringNull, StringUnknown} \cup {StringValue(k) : k \in AccessKeys},
       ps \in {StringNull, StringUnknown} \cup {StringValue(k) : k \in SecretKeys} :
       marking = [access_key |-> Unmarked(fa, pa), secret_key |-> Unmarked(fs, ps)]

MarkAccessKey ==
    /\ ~marking.access_key.done
    /\ marking' =
          [marking EXCEPT
             !.access_key.out = stringPrivateUnknownModifier(
                                   marking.access_key.flag, marking.access_key.plan),
             !.access_key.done = TRUE]
    /\ UNCHANGED <<uvars, bvars, resolution>>

MarkSecretKey ==
    /\ ~marking.secret_key.done
    /\ marking' =
          [marking EXCEPT
             !.secret_key.out = stringPrivateUnknownModifier(
                                   marking.secret_key.flag, marking.secret_key.plan),
             !.secret_key.done = TRUE]
    /\ UNCHANGED <<uvars, bvars, resolution>>

NextMarks ==
    \/ MarkAccessKey
    \/ MarkSecretKey

----------------------------------------------------------------------------
(* BucketResource and BucketPolicyResource *)

\* the answer of an S3 call: "ok", the ErrorCode() of an API error, or
\* "transport" for an error that is no API error
S3Errors == {"404", "403", "405", "transport"}
S3Answers == {"ok"} \cup S3Errors

BucketNames == {"b1", "b2"}
Policies == {"P1", "P2"}

NullBucket == [Id |-> StringNull, Name |-> StringNull]
NullPolicy == [Id |-> StringNull, Bucket |-> StringNull, Policy |-> StringNull]
NoBucket == [present |-> FALSE, data |-> NullBucket]
NoPolicy == [present |-> FALSE, data |-> NullPolicy]

\* an S3 call for a bucket
S3Call(op, name) == [op |-> op, bucket |-> name]

\* Create that sets the id and saves the record before it looks at the error
BucketResource_Create_Partial(data, a) ==
    [written |-> TRUE,
     data |-> [data EXCEPT !.Id = StringValue(ValueString(data.Name))],
     diags |-> IF a # "ok" THEN <<"could not create bucket">> ELSE <<>>,
     calls |-> <<S3Call("CreateBucket", ValueString(data.Name))>>]

BucketResource_Create(data, a) ==
    IF a # "ok"
    THEN [written |-> FALSE, data |-> data, diags |-> <<"could not create bucket">>,
          calls |-> <<S3Call("CreateBucket", ValueString(data.Name))>>]
    ELSE [written |-> TRUE,
          data |-> [data EXCEPT !.Id = StringValue(ValueString(data.Name))],
          diags |-> <<>>,
          calls |-> <<S3Call("CreateBucket", ValueString(data.Name))>>]

BucketResource_Read(data, a) ==
    IF a # "ok"
    THEN IF a = "404"
         THEN [written |-> FALSE, removed |-> TRUE, data |-> data, diags |-> <<>>]
         ELSE IF a = "403"
         THEN [written |-> FALSE, removed |-> FALSE, data |-> data,
               diags |-> <<"no permission to head bucket">>]
         ELSE [written |-> FALSE, removed |-> FALSE, data |-> data,
               diags |-> <<"could not head bucket">>]
    ELSE [written |-> TRUE, removed |-> FALSE,
          data |-> [data EXCEPT !.Name = StringValue(ValueString(data.Id))],
          diags |-> <<>>]

\* "Currently there is nothing to update in place"
BucketResource_Update(data) ==
    [written |-> TRUE, data |-> data, diags |-> <<>>]

BucketResource_Delete(data, a) ==
    [diags |-> IF a # "ok" THEN <<"could not delete bucket">> ELSE <<>>]

BucketPolicyResource_Create(data, a) ==
    IF a # "ok"
    THEN [written |-> FALSE, data |-> data,
          diags |-> <<"could not create bucket policy">>,
          calls |-> <<S3Call("PutBucketPolicy", ValueString(data.Bucket))>>]
    ELSE [written |-> TRUE,
          data |-> [data EXCEPT !.Id = StringValue(ValueString(data.Bucket))],
          diags |-> <<>>,
          calls |-> <<S3Call("PutBucketPolicy", ValueString(data.Bucket))>>]

\* doc: the policy in the remote's answer when a = "ok"
BucketPolicyResource_Read(data, a, doc) ==
    IF a # "ok"
    THEN IF a = "403"
         THEN [written |-> FALSE, removed |-> FALSE, data |-> data,
               diags |-> <<"acces denied">>]
         ELSE IF a = "405"
         THEN [written |-> FALSE, removed |-> FALSE, data |-> data,
               diags |-> <<"wrong identity">>]
         ELSE [written |-> FALSE, removed |-> FALSE, data |-> data,
               diags |-> <<"could not get bucket policy">>]
    ELSE [written |-> TRUE, removed |-> FALSE,
          data |-> [data EXCEPT !.Policy = StringValue(doc)], diags |-> <<>>]

BucketPolicyResource_Update(data, a) ==
    IF a # "ok"
    THEN [written |-> FALSE, data |-> data,
          diags |-> <<"could not modify bucket policy">>]
    ELSE [written |-> TRUE, data |-> data, diags |-> <<>>]

BucketPolicyResource_Delete(data, a) ==
    [diags |-> IF a # "ok" THEN <<"could not delete bucket policy">> ELSE <<>>]

\* a bucket or its policy is there for a call that answers "ok"; it is not
\* there for one that answers "404"
S3Answer(a, there) == (a = "ok" => there) /\ (a = "404" => ~there)

BDone(res, op, a, name, d, r, c) ==
    /\ bLastOp' = [res |-> res, op |-> op, answer |-> a, name |-> name]
    /\ bCalls' = c
    /\ bDiags' = d
    /\ bRemoved' = r
    /\ UNCHANGED <<uvars, resolution, marking>>

\* the remote object store holds no bucket, and "" for a bucket's policy
\* when it has none
BucketInit ==
    /\ bucket = NoBucket
    /\ policy = NoPolicy
    /\ s3 = [buckets |-> {}, policies |-> [b \in BucketNames |-> ""]]
    /\ bLastOp = [res |-> "none", op |-> "none", answer |-> "none", name |-> ""]
    /\ bDiags = <<>>
    /\ bRemoved = FALSE
    /\ bCalls = <<>>

BucketCreate ==
    /\ ~bucket.present
    /\ \E name \in BucketNames, a \in S3Answers \ {"404"} :
          LET data == [NullBucket EXCEPT !.Name = StringValue(name)]
              r == BucketResource_Create(data, a)
          IN /\ bucket' = IF r.written THEN [present |-> TRUE, data |-> r.data]
                          ELSE bucket
             /\ s3' = IF a = "ok" THEN [s3 EXCEPT !.buckets = @ \cup {name}] ELSE s3
             /\ BDone("bucket", "Create", a, name, r.diags, FALSE, r.calls)
    /\ UNCHANGED policy

BucketRead ==
    /\ bucket.present
    /\ \E a \in S3Answers :
          LET name == ValueString(bucket.data.Id)
              r == BucketResource_Read(bucket.data, a)
          IN /\ S3Answer(a, name \in s3.buckets)
             /\ bucket' = IF r.removed THEN NoBucket
                          ELSE IF r.written THEN [present |-> TRUE, data |-> r.data]
                          ELSE bucket
             /\ BDone("bucket", "Read", a, name, r.diags, r.removed,
                      <<S3Call("HeadBucket", name)>>)
    /\ UNCHANGED <<policy, s3>>

BucketUpdate ==
    /\ bucket.present
    /\ LET r == BucketResource_Update(bucket.data)
       IN /\ bucket' = [present |-> TRUE, data |-> r.data]
          /\ BDone("bucket", "Update", "none", ValueString(bucket.data.Id),
                   r.diags, FALSE, <<>>)
    /\ UNCHANGED <<policy, s3>>

BucketDelete ==
    /\ bucket.present
    /\ \E a \in S3Answers :
          LET name == ValueString(bucket.data.Id)
              r == BucketResource_Delete(bucket.data, a)
          IN /\ S3Answer(a, name \in s3.buckets)
             /\ bucket' = IF HasError(r.diags) THEN bucket ELSE NoBucket
             /\ s3' = IF a = "ok"
                      THEN [buckets |-> s3.buckets \ {name},
                            policies |-> [s3.policies EXCEPT ![name] = ""]]
                      ELSE s3
             /\ BDone("bucket", "Delete", a, name, r.diags, FALSE,
                      <<S3Call("DeleteBucket", name)>>)
    /\ UNCHANGED policy

PolicyCreate ==
    /\ ~policy.present
    /\ \E name \in BucketNames, doc \in Policies, a \in S3Answers :
          LET data == [NullPolicy EXCEPT !.Bucket = StringValue(name),
                                         !.Policy = StringValue(doc)]
              r == BucketPolicyResource_Create(data, a)
          IN /\ S3Answer(a, name \in s3.buckets)
             /\ policy' = IF r.written THEN [present |-> TRUE, data |-> r.data]
                          ELSE policy
             /\ s3' = IF a = "ok" THEN [s3 EXCEPT !.policies[name] = doc] ELSE s3
             /\ BDone("policy", "Create", a, name, r.diags, FALSE, r.calls)
    /\ UNCHANGED bucket

PolicyRead ==
    /\ policy.present
    /\ \E a \in S3Answers :
          LET name == ValueString(policy.data.Bucket)
              r == BucketPolicyResource_Read(policy.data, a, s3.policies[name])
          IN /\ S3Answer(a, name \in s3.buckets /\ s3.policies[name] # "")
             /\ policy' = IF r.removed THEN NoPolicy
                          ELSE IF r.written THEN [present |-> TRUE, data |-> r.data]
                          ELSE policy
             /\ BDone("policy", "Read", a, name, r.diags, r.removed,
                      <<S3Call("GetBucketPolicy", name)>>)
    /\ UNCHANGED <<bucket, s3>>

\* the declared policy document changes
PolicyUpdate ==
    /\ policy.present
    /\ \E doc \in Policies \ {ValueString(policy.data.Policy)}, a \in S3Answers :
          LET name == ValueString(policy.data.Bucket)
              data == [policy.data EXCEPT !.Policy = StringValue(doc)]
              r == BucketPolicyResource_Update(data, a)
          IN /\ S3Answer(a, name \in s3.buckets)
             /\ policy' = IF r.written THEN [present |-> TRUE, data |-> r.data]
                          ELSE policy
             /\ s3' = IF a = "ok" THEN [s3 EXCEPT !.policies[name] = doc] ELSE s3
             /\ BDone("policy", "Update", a, name, r.diags, FALSE,
                      <<S3Call("PutBucketPolicy", name)>>)
    /\ UNCHANGED bucket

\* deleting the policy of a bucket that has none succeeds on the remote; the
\* remote answers not-found when the bucket itself is gone
PolicyDelete ==
    /\ policy.present
    /\ \E a \in S3Answers :
          LET name == ValueString(policy.data.Bucket)
              r == BucketPolicyResource_Delete(policy.data, a)
          IN /\ S3Answer(a, name \in s3.buckets)
             /\ policy' = IF HasError(r.diags) THEN policy ELSE NoPolicy
             /\ s3' = IF a = "ok" THEN [s3 EXCEPT !.policies[name] = ""] ELSE s3
             /\ BDone("policy", "Delete", a, name, r.diags, FALSE,
                      <<S3Call("DeleteBucketPolicy", name)>>)
    /\ UNCHANGED bucket

\* somebody else removes a bucket, and its policy with it
EnvRemoveBucket ==
    /\ \E name \in s3.buckets :
          s3' = [buckets |-> s3.buckets \ {name},
                 policies |-> [s3.policies EXCEPT ![name] = ""]]
    /\ BDone("env", "none", "none", "", <<>>, FALSE, <<>>)
    /\ UNCHANGED <<bucket, policy>>

\* somebody else removes a bucket's policy
EnvRemovePolicy ==
    /\ \E name \in s3.buckets :
          /\ s3.policies[name] # ""
          /\ s3' = [s3 EXCEPT !.policies[name] = ""]
    /\ BDone("env", "none", "none", "", <<>>, FALSE, <<>>)
    /\ UNCHANGED <<bucket, policy>>

NextBucket ==
    \/ BucketCreate
    \/ BucketRead
    \/ BucketUpdate
    \/ BucketDelete
    \/ PolicyCreate
    \/ PolicyRead
    \/ PolicyUpdate
    \/ PolicyDelete
    \/ EnvRemoveBucket
    \/ EnvRemovePolicy

----------------------------------------------------------------------------
(* Specifications *)

\* the user resource alone
Init == UserInit /\ BucketInit /\ resolution = NoResolution /\ marking = NoMarking
Spec == Init /\ [][Next]_vars

\* bucket and bucket policy alone
UserIdle ==
    /\ config = Config0
    /\ state = NoState
    /\ private = NoPrivate
    /\ remote = NoRemote
    /\ lastOp = "none"
    /\ lastAnswer = "none"
    /\ planned = NoPlan
    /\ panicked = FALSE
    /\ keyAnswer = "none"
    /\ failed = {}
    /\ diags = <<>>
    /\ calls = <<>>
    /\ removed = FALSE

InitBucket ==
    UserIdle /\ BucketInit /\ resolution = NoResolution /\ marking = NoMarking
SpecBucket == InitBucket /\ [][NextBucket]_vars

\* the user resource with its identity and attributes
InitAttrs ==
    AttrsInit /\ BucketInit /\ resolution = NoResolution /\ marking = NoMarking
SpecAttrs == InitAttrs /\ [][NextAttrs]_vars

\* the cycle of Read, plan and Update, each run again and again
SpecSettle ==
    /\ Init
    /\ [][NextSettle]_vars
    /\ WF_vars(SettleCreate)
    /\ WF_vars(SettleRead)
    /\ WF_vars(SettleUpdate)

\* the user resource with its email
InitEmail ==
    EmailInit /\ BucketInit /\ resolution = NoResolution /\ marking = NoMarking
SpecEmail == InitEmail /\ [][NextEmail]_vars

\* creation and deletion of user, bucket and bucket policy together
NextCreate ==
    \/ Create
    \/ Delete
    \/ BucketCreate
    \/ BucketDelete
    \/ PolicyCreate
    \/ PolicyDelete

SpecCreate == Init /\ [][NextCreate]_vars

\* default resolution alone
InitDefaults ==
    UserIdle /\ BucketInit /\ DefaultsInit /\ marking = NoMarking
SpecDefaults == InitDefaults /\ [][NextDefaults]_vars

\* marking alone
InitMarks ==
    UserIdle /\ BucketInit /\ resolution = NoResolution /\ MarksInit
SpecMarks == InitMarks /\ [][NextMarks]_vars

----------------------------------------------------------------------------
(* Properties of the user resource, checked under Spec *)

\* an Optional flag that counts as true when it is true or unset
ResolvesTrue(b) == ValueBool(b) \/ IsNull(b)

\* whether the call list c holds a call op for access key ak
IssuedIn(c, op, ak) == \E i \in DOMAIN c : c[i].op = op /\ c[i].ak = ak

\* whether the call list c holds a call op
IssuedAny(c, op) == \E i \in DOMAIN c : c[i].op = op

\* exactly one remote key equals the recorded (access_key, secret_key) pair
PairMatchesOneKey ==
    /\ remote.exists
    /\ Cardinality(
          {i \in DOMAIN remote.user.Keys :
              /\ state.data.AccessKey = StringValue(remote.user.Keys[i].AccessKey)
              /\ state.data.SecretKey = StringValue(remote.user.Keys[i].SecretKey)}
          ) = 1

\* C1: with generate_s3_credentials explicitly false, a Create or an Update
\* issues neither CreateKey nor RemoveKey, and the recorded access_key and
\* secret_key are null when it ends.
C1_DisabledIssuesNoKeyCall ==
    (lastOp \in {"Create", "Update"}
        /\ config.GenerateS3Credentials = BoolValue(FALSE)) =>
        /\ ~IssuedAny(calls, "CreateKey")
        /\ ~IssuedAny(calls, "RemoveKey")
        /\ state.present =>
              IsNull(state.data.AccessKey) /\ IsNull(state.data.SecretKey)

\* C2: a Create that asks for a key (generate_s3_credentials true or unset) and
\* gets exactly one key back records that key's access key and secret and
\* reports nothing; with no key or more than one key back it reports an error.
C2_CreateKeyCount ==
    (lastOp = "Create" /\ lastAnswer = "ok"
        /\ ResolvesTrue(config.GenerateS3Credentials)) =>
        IF Len(remote.user.Keys) = 1
        THEN /\ diags = <<>>
             /\ state.present
             /\ state.data.AccessKey = StringValue(remote.user.Keys[1].AccessKey)
             /\ state.data.SecretKey = StringValue(remote.user.Keys[1].SecretKey)
        ELSE HasError(diags)

C2_OneKeyCreated ==
    /\ lastOp = "Create" /\ lastAnswer = "ok"
    /\ ResolvesTrue(config.GenerateS3Credentials)
    /\ Len(remote.user.Keys) = 1
    /\ state.present /\ diags = <<>>
    /\ state.data.AccessKey = StringValue(remote.user.Keys[1].AccessKey)

\* C3 as stated: with generate_s3_credentials true or unset, every Create, Read
\* or Update that ends without an error leaves a recorded (access_key,
\* secret_key) pair that equals exactly one key of the remote user.
C3_EveryPassMatches ==
    (lastOp \in {"Create", "Read", "Update"} /\ diags = <<>> /\ state.present
        /\ ResolvesTrue(config.GenerateS3Credentials)) =>
        PairMatchesOneKey

\* C3 amended: with generate_s3_credentials true or unset, every Create or
\* Update that ends without an error leaves a recorded pair that equals exactly
\* one key of the remote user; a Read that ends without an error leaves such a
\* pair or has set mark_unknown_secret_key to "1".
C3_PassMatchesOrMarks ==
    (diags = <<>> /\ state.present
        /\ ResolvesTrue(config.GenerateS3Credentials)) =>
        /\ lastOp \in {"Create", "Update"} => PairMatchesOneKey
        /\ lastOp = "Read" => PairMatchesOneKey \/ private.secret_key = "1"

C3_ReadMarksLostKey ==
    /\ lastOp = "Read" /\ lastAnswer = "ok" /\ diags = <<>> /\ state.present
    /\ ResolvesTrue(config.GenerateS3Credentials)
    /\ ~IsNull(state.data.AccessKey) /\ ~IsUnknown(state.data.AccessKey)
    /\ ~PairMatchesOneKey
    /\ private.secret_key = "1"

\* C4: an Update with exclusive_s3_credentials true or unset issues RemoveKey
\* for every key the remote user held whose access key is not the planned one,
\* and when it ends without an error the recorded key is the only key of the
\* remote user.
C4_ExclusiveRemovesOthers ==
    [][(lastOp' = "Update" /\ lastAnswer' = "ok"
          /\ ResolvesTrue(config.ExclusiveS3Credentials)) =>
          /\ \A ak \in KeyIds(remote.user.Keys) :
                StringValue(ak) # planned'.AccessKey =>
                   IssuedIn(calls', "RemoveKey", ak)
          /\ diags' = <<>> =>
                remote'.user.Keys =
                   <<[AccessKey |-> ValueString(state'.data.AccessKey),
                      SecretKey |-> ValueString(state'.data.SecretKey)]>>]_vars

C4_OtherKeyRemoved ==
    /\ lastOp = "Update" /\ lastAnswer = "ok" /\ diags = <<>>
    /\ ResolvesTrue(config.ExclusiveS3Credentials)
    /\ ~IsUnknown(planned.AccessKey) /\ ~IsNull(planned.AccessKey)
    /\ IssuedAny(calls, "RemoveKey")
    /\ ~IssuedAny(calls, "CreateKey")
    /\ Len(remote.user.Keys) = 1

C6_NonExclusiveKeepsKeys ==
    [][(lastOp' = "Update" /\ config.ExclusiveS3Credentials = BoolValue(FALSE)) =>
          /\ ~IssuedAny(calls', "RemoveKey")
          /\ \A i \in DOMAIN remote.user.Keys :
                \E j \in DOMAIN remote'.user.Keys :
                   remote'.user.Keys[j] = remote.user.Keys[i]]_vars

C6_KeyAddedBesideOther ==
    /\ lastOp = "Update" /\ lastAnswer = "ok" /\ diags = <<>>
    /\ config.ExclusiveS3Credentials = BoolValue(FALSE)
    /\ IssuedAny(calls, "CreateKey")
    /\ Len(remote.user.Keys) = 2

\* C7: a user Read that GetUser answers with "no such user" removes the record
\* and reports nothing; a user Read that GetUser fails otherwise reports an
\* error and leaves the record as it was.
C7_ReadGetUserFailure ==
    [][lastOp' = "Read" =>
          /\ lastAnswer' = "ErrNoSuchUser" =>
                removed' /\ ~state'.present /\ diags' = <<>>
          /\ lastAnswer' \notin {"ok", "ErrNoSuchUser"} =>
                HasError(diags') /\ ~removed' /\ state' = state]_vars

C7_RecordRemoved ==
    /\ lastOp = "Read" /\ lastAnswer = "ErrNoSuchUser"
    /\ removed /\ ~state.present /\ diags = <<>>

\* C8: a user Delete that RemoveUser answers with "no such user" ends without
\* an error and the record is gone; a user Delete that RemoveUser fails
\* otherwise reports an error.
C8_DeleteNoSuchUser ==
    lastOp = "Delete" =>
        /\ lastAnswer = "ErrNoSuchUser" => diags = <<>> /\ ~state.present
        /\ lastAnswer \notin {"ok", "ErrNoSuchUser"} => HasError(diags)

C8_AbsentUserDeleted ==
    /\ lastOp = "Delete" /\ lastAnswer = "ErrNoSuchUser"
    /\ ~remote.exists /\ ~state.present /\ diags = <<>>

\* C21: an Update that has issued CreateKey and got an answer with no key
\* whose access key is the one that was sent (an empty list and no list
\* included) reports an error, does not crash and records no secret.
C21_MismatchReportsError ==
    (lastOp = "Update" /\ keyAnswer \notin {"none", "err"}
        /\ calls[Len(calls)].ak \notin
              KeyIds(IF keyAnswer = "all" THEN remote.user.Keys ELSE <<>>)) =>
        /\ HasError(diags)
        /\ ~panicked
        /\ IsNull(state.data.SecretKey)

\* C31: an Update never sends a RemoveKey for the remote key that has the
\* recorded access key, when the record holds one: wherever the key stands in
\* the remote's list and whatever exclusive_s3_credentials is.
C31_ManagedKeyNeverRemoved ==
    [][(lastOp' = "Update" /\ state.present
           /\ ~IsNull(state.data.AccessKey) /\ ~IsUnknown(state.data.AccessKey)) =>
          ~IssuedIn(calls', "RemoveKey", ValueString(state.data.AccessKey))]_vars

\* C28: the remote calls of one Update come in a fixed order: ModifyUser
\* first, then RemoveKey calls, then at most one CreateKey; no RemoveKey comes
\* after the CreateKey, and when ModifyUser failed no key call is made.
C28_UpdateCallOrder ==
    lastOp = "Update" =>
       /\ Len(calls) >= 1
       /\ calls[1].op = "ModifyUser"
       /\ \A i \in 2..Len(calls) : calls[i].op \in {"RemoveKey", "CreateKey"}
       /\ \A i \in DOMAIN calls : calls[i].op = "CreateKey" => i = Len(calls)
       /\ lastAnswer # "ok" => Len(calls) = 1

C28_ModifyRemoveCreate ==
    /\ lastOp = "Update"
    /\ Len(calls) = 4
    /\ [i \in 1..4 |-> calls[i].op]
          = <<"ModifyUser", "RemoveKey", "RemoveKey", "CreateKey">>

\* C27: a Read that finds the user sets the recorded exclusive_s3_credentials
\* to false when key generation is enabled, the recorded
\* exclusive_s3_credentials is unset, and the remote holds more than one key or
\* exactly one key that is not the recorded access key; in every other case,
\* a recorded true or false among them, it leaves exclusive_s3_credentials as
\* it was.
C27_ReadFlipsOnlyUnsetExclusive ==
    [][(lastOp' = "Read" /\ lastAnswer' = "ok" /\ diags' = <<>>) =>
          LET keys == remote.user.Keys
              other == Len(keys) = 1
                       /\ ~(~IsNull(state.data.AccessKey)
                            /\ keys[1].AccessKey = ValueString(state.data.AccessKey))
              flips == /\ ResolvesTrue(state.data.GenerateS3Credentials)
                       /\ IsNull(state.data.ExclusiveS3Credentials)
                       /\ (Len(keys) > 1 \/ other)
          IN state'.data.ExclusiveS3Credentials =
                IF flips THEN BoolValue(FALSE)
                ELSE state.data.ExclusiveS3Credentials]_vars

\* C26: an Update whose ModifyUser or whose CreateKey fails reports an error
\* and writes neither the record nor a private flag: both are afterwards what
\* they were before the Update.
C26_FailedCallLeavesRecord ==
    [][(lastOp' = "Update" /\ (lastAnswer' # "ok" \/ keyAnswer' = "err")) =>
          /\ HasError(diags')
          /\ state' = state
          /\ private' = private]_vars

\* CreateKey failed after another key had been removed
C26_CreateKeyFailedAfterRemove ==
    /\ lastOp = "Update"
    /\ lastAnswer = "ok"
    /\ keyAnswer = "err"
    /\ calls[Len(calls)].op = "CreateKey"
    /\ IssuedAny(calls, "RemoveKey")
    /\ HasError(diags)
    /\ IsNull(state.data.SecretKey)

\* C25: in the key loop of an Update that removes the keys that are not its
\* own, a RemoveKey that fails is recorded as an error and does not stop the
\* loop: every key the remote held is still either matched with the planned
\* access key or sent a RemoveKey, and the Update ends with an error.
C25_FailedRemoveGoesOn ==
    [][(lastOp' = "Update" /\ lastAnswer' = "ok" /\ failed' # {}) =>
          /\ HasError(diags')
          /\ \A ak \in KeyIds(remote.user.Keys) :
                \/ /\ ~IsNull(planned'.AccessKey)
                   /\ ak = ValueString(planned'.AccessKey)
                \/ IssuedIn(calls', "RemoveKey", ak)]_vars

\* the first of two keys could not be removed, the second was removed
C25_SecondRemovedAfterFirstFailed ==
    /\ lastOp = "Update"
    /\ failed = {AccessKeyOrder[1]}
    /\ HasError(diags)
    /\ Len(calls) >= 3
    /\ calls[2] = Call("RemoveKey", ValueString(state.data.Id), AccessKeyOrder[1])
    /\ calls[3] = Call("RemoveKey", ValueString(state.data.Id), AccessKeyOrder[2])
    /\ AccessKeyOrder[2] \notin KeyIds(remote.user.Keys)

\* C24: Read makes exactly one remote call, the user get, and changes nothing
\* at the remote: no key is created or removed and the user is neither
\* modified nor removed, whatever keys the remote reports and whatever
\* exclusive_s3_credentials is.
C24_ReadOnlyGetsUser ==
    [][lastOp' = "Read" =>
          /\ Len(calls') = 1
          /\ calls'[1].op = "GetUser"
          /\ remote' = remote]_vars

C24_ReadOfExclusiveWithTwoKeys ==
    /\ lastOp = "Read"
    /\ lastAnswer = "ok"
    /\ config.ExclusiveS3Credentials = BoolValue(TRUE)
    /\ ResolvesTrue(config.GenerateS3Credentials)
    /\ Len(remote.user.Keys) = 2
    /\ calls = <<Call("GetUser", ValueString(state.data.Id), "")>>

\* C22: a Read that GetUser answered, with key generation enabled (true or
\* unset): when a remote key has the recorded access key, the recorded secret
\* becomes that key's secret and both flags become "0"; when an access key is
\* recorded and no remote key has it, the secret flag becomes "1"; when no
\* access key is recorded, both flags become "1".  With key generation
\* disabled both flags become "0" and access key and secret become null.
C22_ReadSetsFlags ==
    [][(lastOp' = "Read" /\ lastAnswer' = "ok" /\ diags' = <<>>) =>
          IF ResolvesTrue(state.data.GenerateS3Credentials)
          THEN IF IsNull(state.data.AccessKey)
               THEN private'.access_key = "1" /\ private'.secret_key = "1"
               ELSE IF ValueString(state.data.AccessKey) \in KeyIds(remote.user.Keys)
               THEN /\ \E i \in DOMAIN remote.user.Keys :
                          /\ remote.user.Keys[i].AccessKey =
                                ValueString(state.data.AccessKey)
                          /\ state'.data.SecretKey =
                                StringValue(remote.user.Keys[i].SecretKey)
                    /\ private' = [access_key |-> "0", secret_key |-> "0"]
               ELSE private'.secret_key = "1"
          ELSE /\ private' = [access_key |-> "0", secret_key |-> "0"]
               /\ IsNull(state'.data.AccessKey)
               /\ IsNull(state'.data.SecretKey)]_vars

C22_NoKeyRecordedBothMarked ==
    /\ lastOp = "Read" /\ lastAnswer = "ok" /\ diags = <<>>
    /\ ResolvesTrue(state.data.GenerateS3Credentials)
    /\ IsNull(state.data.AccessKey)
    /\ Len(remote.user.Keys) >= 1
    /\ private = [access_key |-> "1", secret_key |-> "1"]

\* C18: when a Read has written the record, a Read of that record and those
\* private flags, answered with the same remote user, writes the same record
\* and the same private flags and reports nothing.
C18_ReadIsIdempotent ==
    (lastOp = "Read" /\ lastAnswer = "ok" /\ diags = <<>> /\ state.present) =>
        LET r == UserResource_Read(state.data, private, "ok", remote.user)
        IN /\ r.written /\ ~r.removed /\ r.diags = <<>>
           /\ Saved(r.data, state.tainted) = state
           /\ r.private = private

C18_RereadAfterLostKey ==
    /\ lastOp = "Read" /\ lastAnswer = "ok" /\ diags = <<>> /\ state.present
    /\ ~IsNull(state.data.AccessKey)
    /\ ~PairMatchesOneKey
    /\ Len(remote.user.Keys) = 1
    /\ private.secret_key = "1"
    /\ state.data.ExclusiveS3Credentials = BoolValue(FALSE)
    /\ config.ExclusiveS3Credentials # BoolValue(FALSE)
    /\ LET r == UserResource_Read(state.data, private, "ok", remote.user)
       IN Saved(r.data, state.tainted) = state /\ r.private = private

----------------------------------------------------------------------------
(* Properties of identity and attributes, checked under SpecAttrs *)

\* whether the string s holds the separator '$'
HasSep(s) == \E i \in DOMAIN s : s[i] = "$"

\* a Read that GetUser answered with the recorded user and that wrote the record
ReadPassed ==
    lastOp = "Read" /\ lastAnswer = "ok" /\ diags = <<>> /\ state.present

\* C11 as stated: for every declared tenant, present or absent, and every
\* declared username without '$', a Read of the user that Create made records
\* the declared tenant and the declared username.
C11_RoundTripAnyTenant ==
    (ReadPassed /\ ~HasSep(ValueString(config.Username))) =>
        /\ state.data.Tenant = config.Tenant
        /\ state.data.Username = config.Username

\* C11 amended: for every declared tenant without '$', present or absent, and
\* every declared username without '$', a Read of the user that Create made
\* records the declared tenant and the declared username.
C11_RoundTripPlainTenant ==
    (ReadPassed /\ ~HasSep(ValueString(config.Username))
        /\ ~HasSep(ValueString(config.Tenant))) =>
        /\ state.data.Tenant = config.Tenant
        /\ state.data.Username = config.Username

C11_TenantSplitOff ==
    /\ ReadPassed
    /\ ~IsNull(config.Tenant)
    /\ ~HasSep(ValueString(config.Tenant))
    /\ ~HasSep(ValueString(config.Username))
    /\ Len(ValueString(config.Username)) = 2
    /\ state.data.Tenant = config.Tenant
    /\ state.data.Username = config.Username
    /\ state.data.Id =
          TextValue(ValueString(config.Tenant) \o <<"$">>
                       \o ValueString(config.Username))

\* C12: no user is created whose declared username holds a '$'.
C12_NoSeparatorInCreatedUsername ==
    (lastOp = "Create" /\ lastAnswer = "ok") =>
        ~HasSep(ValueString(config.Username))

\* C14: while op_mask, max_buckets or suspended is left unset and the record
\* holds a value for it, the plan derived from the declaration and the record
\* keeps that value.
C14_PlanKeepsRecordedValue ==
    (state.present /\ ~state.tainted) =>
        LET p == Plan(config, state, private)
        IN /\ IsNull(config.OpMask) => p.OpMask = state.data.OpMask
           /\ IsNull(config.MaxBuckets) => p.MaxBuckets = state.data.MaxBuckets
           /\ IsNull(config.Suspended) => p.Suspended = state.data.Suspended

\* C15: after a Read that wrote the record, the recorded max_buckets is the
\* remote user's, and the recorded suspended is true exactly when the remote
\* user's suspended is at least 1.
C15_ReadTakesRemoteQuota ==
    ReadPassed =>
        /\ state.data.MaxBuckets = Int64Value(remote.user.MaxBuckets[1])
        /\ state.data.Suspended = BoolValue(remote.user.Suspended[1] >= 1)

C15_DefaultReplacedByRemote ==
    /\ ReadPassed
    /\ IsNull(config.MaxBuckets) /\ IsNull(config.Suspended)
    /\ remote.user.MaxBuckets = <<500>>
    /\ remote.user.Suspended = <<1>>
    /\ state.data.MaxBuckets = Int64Value(500)
    /\ state.data.Suspended = BoolValue(TRUE)

C19_DeclaredCapsSent ==
    (lastOp \in {"Create", "Update"} /\ lastAnswer = "ok") =>
        remote.user.Caps =
           [i \in 1..Len(config.Caps) |->
               [Type |-> ValueString(config.Caps[i].Type),
                Perm |-> ValueString(config.Caps[i].Perm)]]

\* C20: after a Read that wrote the record, the recorded caps are the remote
\* user's capabilities, in order, and there are none when the remote user has
\* none.
C20_ReadTakesRemoteCaps ==
    ReadPassed =>
        state.data.Caps =
           [i \in 1..Len(remote.user.Caps) |->
               [Type |-> StringValue(remote.user.Caps[i].Type),
                Perm |-> StringValue(remote.user.Caps[i].Perm)]]

\* C32: a Read that keeps the record leaves its op_mask, id,
\* generate_s3_credentials and purge_data_on_delete as they were, whatever the
\* remote reports: an op mask changed at the remote is not taken into the
\* record.
C32_ReadKeepsOpMask ==
    [][(lastOp' = "Read" /\ state'.present) =>
          /\ state'.data.OpMask = state.data.OpMask
          /\ state'.data.Id = state.data.Id
          /\ state'.data.GenerateS3Credentials = state.data.GenerateS3Credentials
          /\ state'.data.PurgeDataOnDelete = state.data.PurgeDataOnDelete]_vars

\* a Read wrote the record while the remote held another op mask
C32_RemoteOpMaskNotRead ==
    /\ ReadPassed
    /\ remote.user.OpMask = "read"
    /\ state.data.OpMask = StringValue(DefaultOpMask)

----------------------------------------------------------------------------
(* Properties of creation, checked under SpecCreate *)

\* C17: a Create of a user, a bucket or a bucket policy issues exactly one
\* remote call, the creation call (CreateUser, CreateBucket, PutBucketPolicy);
\* when that call fails, the Create reports an error and there is no record.
C17_CreateCallsOnceAndFailsClean ==
    /\ lastOp = "Create" =>
          /\ Len(calls) = 1 /\ calls[1].op = "CreateUser"
          /\ lastAnswer # "ok" => HasError(diags) /\ state = NoState
    /\ (bLastOp.op = "Create" /\ bLastOp.res = "bucket") =>
          /\ Len(bCalls) = 1 /\ bCalls[1].op = "CreateBucket"
          /\ bLastOp.answer # "ok" => HasError(bDiags) /\ bucket = NoBucket
    /\ (bLastOp.op = "Create" /\ bLastOp.res = "policy") =>
          /\ Len(bCalls) = 1 /\ bCalls[1].op = "PutBucketPolicy"
          /\ bLastOp.answer # "ok" => HasError(bDiags) /\ policy = NoPolicy

C17_CreationsFailed ==
    /\ lastOp = "Create" /\ lastAnswer = "Err"
    /\ HasError(diags) /\ state = NoState /\ Len(calls) = 1
    /\ bLastOp.op = "Create" /\ bLastOp.res = "bucket" /\ bLastOp.answer = "403"
    /\ HasError(bDiags) /\ bucket = NoBucket /\ Len(bCalls) = 1
    /\ policy = NoPolicy

----------------------------------------------------------------------------
(* Properties of default resolution, checked under SpecDefaults *)

IsKnown(x) == ~IsNull(x) /\ ~IsUnknown(x)

\* C13 as stated: default resolution of op_mask (default "read, write,
\* delete"), max_buckets (default 1000) and suspended (default false), each on
\* its own: a declared value that is present is the planned value unchanged; a
\* declared null with a planned unknown gives the default; in every other case
\* the planned value is left as it was.
C13_DefaultOnlyForUnknown ==
    LET d == [op_mask |-> StringValue("read, write, delete"),
              max_buckets |-> Int64Value(1000), suspended |-> BoolValue(FALSE)]
    IN \A f \in {"op_mask", "max_buckets", "suspended"} :
          LET r == resolution[f]
          IN r.done =>
                r.out = IF IsKnown(r.config) THEN r.config
                        ELSE IF IsNull(r.config) /\ IsUnknown(r.plan) THEN d[f]
                        ELSE r.plan

\* C13 amended: as stated, and a declared null with a planned null gives the
\* default as well.
C13_DefaultForUnknownOrNull ==
    LET d == [op_mask |-> StringValue("read, write, delete"),
              max_buckets |-> Int64Value(1000), suspended |-> BoolValue(FALSE)]
    IN \A f \in {"op_mask", "max_buckets", "suspended"} :
          LET r == resolution[f]
          IN r.done =>
                r.out = IF IsKnown(r.config) THEN r.config
                        ELSE IF IsNull(r.config)
                                /\ (IsUnknown(r.plan) \/ IsNull(r.plan))
                        THEN d[f]
                        ELSE r.plan

C13_EachCaseResolved ==
    /\ resolution.op_mask.done
    /\ IsNull(resolution.op_mask.config) /\ IsNull(resolution.op_mask.plan)
    /\ resolution.op_mask.out = StringValue("read, write, delete")
    /\ resolution.max_buckets.done
    /\ IsNull(resolution.max_buckets.config)
    /\ IsUnknown(resolution.max_buckets.plan)
    /\ resolution.max_buckets.out = Int64Value(1000)
    /\ resolution.suspended.done
    /\ resolution.suspended.config = BoolValue(TRUE)
    /\ resolution.suspended.out = BoolValue(TRUE)

----------------------------------------------------------------------------
(* Properties of the cycle, checked under SpecSettle *)

\* a Read followed by a plan shows no difference from the record, and leaves
\* both private flags resolved
Settled ==
    /\ state.present
    /\ remote.exists
    /\ LET r == UserResource_Read(state.data, private, "ok", remote.user)
           st == Saved(r.data, state.tainted)
       IN /\ r.written
          /\ Plan(config, st, r.private) = st.data
          /\ r.private.access_key # "1"
          /\ r.private.secret_key # "1"

\* C30: with a fixed declaration and a remote that only the provider changes,
\* the cycle of Read, plan and Update (Update when the plan differs from the
\* record) reaches a state where a Read followed by a plan shows no difference
\* and both private flags are resolved, and stays there: no flag stays set for
\* ever and exclusive_s3_credentials does not go to and fro.
C30_CycleSettles == <>[]Settled

\* an Update has removed the keys it found and made a new one, and the cycle
\* has settled on it
C30_SettledAfterRepair ==
    /\ Settled
    /\ lastOp = "Update"
    /\ IssuedAny(calls, "RemoveKey")
    /\ IssuedAny(calls, "CreateKey")
    /\ private = [access_key |-> "0", secret_key |-> "0"]
    /\ PairMatchesOneKey

----------------------------------------------------------------------------
(* Properties of the email, checked under SpecEmail *)

\* C29: Read tells an empty email from an unset one: when the recorded email
\* is unset and the remote email is empty the email stays unset; in every
\* other case the email read is the remote email, the empty string when the
\* remote email is empty.
C29_ReadTakesRemoteEmail ==
    [][(lastOp' = "Read" /\ lastAnswer' = "ok" /\ diags' = <<>>) =>
          state'.data.Email =
             IF IsNull(state.data.Email) /\ remote.user.Email = ""
             THEN StringNull
             ELSE StringValue(remote.user.Email)]_vars

\* a declared and recorded email was emptied at the remote and read as empty
C29_EmptiedEmailReadAsEmpty ==
    /\ lastOp = "Read"
    /\ lastAnswer = "ok"
    /\ config.Email = StringValue("a@x")
    /\ remote.user.Email = ""
    /\ state.data.Email = StringValue("")

----------------------------------------------------------------------------
(* Properties of marking, checked under SpecMarks *)

\* C23: at plan time, for access_key and for secret_key, each on its own: when
\* the field's private flag is set ("1") the planned value becomes unknown;
\* when the flag is unset or "0" the planned value is left as it was.
C23_FlagMarksUnknown ==
    \A f \in {"access_key", "secret_key"} :
       LET r == marking[f]
       IN r.done => r.out = IF r.flag = "1" THEN StringUnknown ELSE r.plan

C23_OneMarkedOneKept ==
    /\ marking.access_key.done
    /\ marking.access_key.flag = "1"
    /\ marking.access_key.plan = StringValue("AK1")
    /\ marking.access_key.out = StringUnknown
    /\ marking.secret_key.done
    /\ marking.secret_key.flag = "0"
    /\ marking.secret_key.plan = StringValue("SK1")
    /\ marking.secret_key.out = StringValue("SK1")

----------------------------------------------------------------------------
(* Properties of bucket and bucket policy, checked under SpecBucket *)

\* C9: a bucket Delete and a bucket policy Delete that the remote answers with
\* not-found end without an error.
C9_DeleteOfAbsentSucceeds ==
    (bLastOp.op = "Delete" /\ bLastOp.answer = "404") => bDiags = <<>>

\* C10: a bucket Read and a bucket policy Read that the remote answers with
\* not-found remove the record and report nothing; answered with permission
\* denied they report an error and keep the record.
C10_ReadNotFoundRemoves ==
    bLastOp.op = "Read" =>
        /\ bLastOp.answer = "404" => bRemoved /\ bDiags = <<>>
        /\ bLastOp.answer = "403" => HasError(bDiags) /\ ~bRemoved

====
